---- MODULE Spec2Model ----
(***************************************************************************)
(* Model of LMSproject/library_app.py: a command-line library manager.     *)
(* Every domain function is one request (or two, for the guarded deletes)  *)
(* against a remote relational store; borrow and return are delegated to   *)
(* two stored procedures of the store.                                     *)
(*                                                                         *)
(* The store's tables are the shared state.  An operator session is one    *)
(* run of the interaction loop (lines 163-264).  Spec is the program as    *)
(* it is used: one session.  SpecClock is one session lending and taking   *)
(* back while the days pass.  SpecConc is two sessions against the same    *)
(* store, each making one menu choice, interleaved at store calls.         *)
(*                                                                         *)
(* The stored procedures and the table definitions are not part of the     *)
(* source file; they are modelled from the specification (section 4.3,     *)
(* section 3): a borrow needs existing member and book rows, stock > 0 and *)
(* no open record for the pair; a table delete removes the addressed row   *)
(* and leaves borrow_records alone.                                        *)
(*                                                                         *)
(* Abstractions: member name/email and book title/author/category are not  *)
(* kept (no property below reads them); timestamps are whole days;         *)
(* menu input is well-typed (int() never raises).                          *)
(***************************************************************************)
EXTENDS Integers, Sequences, FiniteSets, TLC

\* ---------------------------------------------------------------- bounds
MaxMembers == 2
MaxBooks == 2
MaxStock == 1
MaxRecords == 2
MaxDay == 15

\* ------------------------------------------------------ program constants
\* 'now()-14d' in get_overdue_books
OverdueDays == 14
\* SQL null of return_date (is_("return_date", "null"))
NULL == -1

Sessions == {1, 2}
Operator == 1

MemberIds == 1..MaxMembers
BookIds == 1..MaxBooks
\* int(input("Enter stock count: ")) accepts any integer, negative included
StockInputs == (-1)..MaxStock
\* the clock advances between two operations: to the threshold, or past it
TickDays == {OverdueDays, OverdueDays + 1}

VARIABLES
    members,        \* rows of table members (their member_id)
    books,          \* rows of table books (their book_id)
    stock,          \* books.stock, by book_id
    records,        \* rows of table borrow_records, in insertion order
    nextMemberId,   \* serial of members.member_id
    nextBookId,     \* serial of books.book_id
    now,            \* the store's clock, in days
    pc,             \* per session: where the interaction loop is
    choice,         \* per session: the menu choice read last ("" before the first)
    member_id,      \* per session: member id typed for that choice (0: none asked)
    book_id,        \* per session: book id typed for that choice (0: none asked)
    ret,            \* per session: what the domain function called for that choice
                    \* returned (None while it runs, or when none is called)
    out,            \* per session: diagnostic that domain function printed
    guard_len       \* per session (history): number of borrow_records rows when
                    \* the guard query of its delete in progress ran (0: none)

store == <<members, books, stock, records, nextMemberId, nextBookId>>
session == <<pc, choice, member_id, book_id, ret, out, guard_len>>
vars == <<members, books, stock, records, nextMemberId, nextBookId, now,
          pc, choice, member_id, book_id, ret, out, guard_len>>

\* ------------------------------------------------------- return values
\* Python None
None == [none |-> TRUE, data |-> {}]
\* response.data / data.data: the rows (their ids) the store sent back
Data(rows) == [none |-> FALSE, data |-> rows]

\* nothing printed by the domain function
NoOutput == [msg |-> "", e |-> ""]
\* print(f"Error ...: {e}")
ErrorOutput(msg, e) == [msg |-> msg, e |-> e]

\* a store call that raises before the store did anything (network, auth)
Transport == "transport"
\* the error a stored procedure raises when its precondition fails
Precondition == "precondition violated"


\* ---------------------------------------------------------- store queries
IsOpen(r) == r.return_date = NULL

\* borrow_records where member_id = m and return_date is null (line 88, mutated):
\* the filter put on the wrong column
OpenLoansFilteredByBookId(m) ==
    {i \in DOMAIN records : records[i].book_id = m /\ IsOpen(records[i])}

\* sb.table("borrow_records").select("*").eq("member_id", member_id)
\*   .is_("return_date", "null")
OpenLoansOfMember(m) ==
    {i \in DOMAIN records : records[i].member_id = m /\ IsOpen(records[i])}

\* line 102, mutated: the null check on return_date left out
AllLoansOfBook(b) ==
    {i \in DOMAIN records : records[i].book_id = b}

\* sb.table("borrow_records").select("*").eq("book_id", book_id)
\*   .is_("return_date", "null")
OpenLoansOfBook(b) ==
    {i \in DOMAIN records : records[i].book_id = b /\ IsOpen(records[i])}

\* the open records of the pair (member, book), read by both stored procedures
OpenLoansOfPair(m, b) ==
    {i \in DOMAIN records :
        records[i].member_id = m /\ records[i].book_id = b /\ IsOpen(records[i])}

\* ------------------------------------------------------ stored procedures
\* What an rpc call yields: raised or not, the error or the payload, and the
\* tables as the procedure leaves them (all or nothing).
Raise(e) ==
    [raised |-> TRUE, error |-> e, data |-> {}, records |-> records, stock |-> stock]

\* borrow_book_transaction(p_member_id, p_book_id): insert an open record
\* stamped now and take one from the stock, or raise and change nothing
borrow_book_transaction(p_member_id, p_book_id) ==
    IF \/ p_member_id \notin members
       \/ p_book_id \notin books
    THEN Raise(Precondition)
    ELSE IF stock[p_book_id] <= 0 \/ OpenLoansOfPair(p_member_id, p_book_id) # {}
    THEN Raise(Precondition)
    ELSE [raised |-> FALSE, error |-> "", data |-> {Len(records) + 1},
          records |-> Append(records,
                        [member_id |-> p_member_id, book_id |-> p_book_id,
                         borrow_date |-> now, return_date |-> NULL]),
          stock |-> [stock EXCEPT ![p_book_id] = @ - 1]]

\* return_book_transaction(p_member_id, p_book_id): close the open record of
\* the pair and give one back to the stock, or raise and change nothing
return_book_transaction(p_member_id, p_book_id) ==
    IF OpenLoansOfPair(p_member_id, p_book_id) = {}
    THEN Raise(Precondition)
    ELSE LET i == CHOOSE j \in OpenLoansOfPair(p_member_id, p_book_id) :
                    \A k \in OpenLoansOfPair(p_member_id, p_book_id) : j <= k
         IN [raised |-> FALSE, error |-> "", data |-> {i},
             records |-> [records EXCEPT ![i].return_date = now],
             stock |-> IF p_book_id \in books
                       THEN [stock EXCEPT ![p_book_id] = @ + 1]
                       ELSE stock]

\* sb.rpc(name, params).execute(): the call reaches the store (net) or raises
Rpc(net, response) == IF net THEN response ELSE Raise(Transport)

\* ------------------------------------------------ borrow / return wrappers
\* What a wrapper yields: its return value, what it printed, the tables.
Outcome(response, msg) ==
    [ret |-> IF response.raised THEN None ELSE Data(response.data),
     out |-> IF response.raised THEN ErrorOutput(msg, response.error) ELSE NoOutput,
     records |-> response.records,
     stock |-> response.stock]

\* borrow_book, mutated: the two ids passed under each other's parameter name
borrow_book_swapped(m, b, net) ==
    Outcome(Rpc(net, borrow_book_transaction(b, m)), "Error borrowing book")

\* def borrow_book(member_id, book_id)
borrow_book(m, b, net) ==
    Outcome(Rpc(net, borrow_book_transaction(m, b)), "Error borrowing book")

\* return_book, mutated: the two ids passed under each other's parameter name
return_book_swapped(m, b, net) ==
    Outcome(Rpc(net, return_book_transaction(b, m)), "Error returning book")

\* def return_book(member_id, book_id)
return_book(m, b, net) ==
    Outcome(Rpc(net, return_book_transaction(m, b)), "Error returning book")

\* ----------------------------------------------------------------- reports
\* rows get_overdue_books selects:
\*   .gte('borrow_date', 'now()-14d').is_('return_date', 'null')
get_overdue_books ==
    {i \in DOMAIN records :
        records[i].borrow_date >= now - OverdueDays /\ IsOpen(records[i])}

\* get_borrow_count_per_member: group by member_id
get_borrow_count_per_member == {records[i].member_id : i \in DOMAIN records}


\* ------------------------------------------------------- interaction loop
Init ==
    /\ members = {}
    /\ books = {}
    /\ stock = <<>>
    /\ records = <<>>
    /\ nextMemberId = 1
    /\ nextBookId = 1
    /\ now = 0
    /\ pc = [s \in Sessions |-> "menu"]
    /\ choice = [s \in Sessions |-> ""]
    /\ member_id = [s \in Sessions |-> 0]
    /\ book_id = [s \in Sessions |-> 0]
    /\ ret = [s \in Sessions |-> None]
    /\ out = [s \in Sessions |-> NoOutput]
    /\ guard_len = [s \in Sessions |-> 0]

\* session s read choice c with ids m and b, the domain function returned r
\* after printing o, and the loop goes on at p
Step(s, c, m, b, r, o, p) ==
    /\ choice' = [choice EXCEPT ![s] = c]
    /\ member_id' = [member_id EXCEPT ![s] = m]
    /\ book_id' = [book_id EXCEPT ![s] = b]
    /\ ret' = [ret EXCEPT ![s] = r]
    /\ out' = [out EXCEPT ![s] = o]
    /\ pc' = [pc EXCEPT ![s] = p]

\* for ... in <returned value>: iterating None raises TypeError, which nothing
\* catches: the program ends
Render(r) == IF r.none THEN "crashed" ELSE "menu"

\* choice '1': register_member(name, email)
Choice1(s, net) ==
    /\ pc[s] = "menu"
    /\ IF net
       THEN /\ nextMemberId <= MaxMembers
            /\ members' = members \cup {nextMemberId}
            /\ nextMemberId' = nextMemberId + 1
            /\ Step(s, "1", 0, 0, Data({nextMemberId}), NoOutput, "menu")
       ELSE /\ UNCHANGED <<members, nextMemberId>>
            /\ Step(s, "1", 0, 0, None,
                    ErrorOutput("Error registering member", Transport), "menu")
    /\ UNCHANGED <<books, stock, records, nextBookId, now, guard_len>>

\* choice '2': add_book(title, author, category, stock)
Choice2(s, new_stock, net) ==
    /\ pc[s] = "menu"
    /\ IF net
       THEN /\ nextBookId <= MaxBooks
            /\ books' = books \cup {nextBookId}
            /\ stock' = [b \in books \cup {nextBookId} |->
                            IF b = nextBookId THEN new_stock ELSE stock[b]]
            /\ nextBookId' = nextBookId + 1
            /\ Step(s, "2", 0, 0, Data({nextBookId}), NoOutput, "menu")
       ELSE /\ UNCHANGED <<books, stock, nextBookId>>
            /\ Step(s, "2", 0, 0, None, ErrorOutput("Error adding book", Transport), "menu")
    /\ UNCHANGED <<members, records, nextMemberId, now, guard_len>>

\* choice '3': list_all_books(), then print every book
Choice3(s, net) ==
    /\ pc[s] = "menu"
    /\ LET r == IF net THEN Data(books) ELSE None
       IN Step(s, "3", 0, 0, r,
               IF net THEN NoOutput ELSE ErrorOutput("Error fetching books", Transport),
               Render(r))
    /\ UNCHANGED <<store, now, guard_len>>

\* choice '4': search_books(query, search_by), then print every book found.
\* found is what the ilike filter matches; a search_by other than the three
\* fields leaves books unbound, which the except clause turns into None
Choice4(s, search_by, found, net) ==
    /\ pc[s] = "menu"
    /\ LET bound == search_by \in {"title", "author", "category"}
           r == IF net /\ bound THEN Data(found) ELSE None
       IN Step(s, "4", 0, 0, r,
               IF net /\ bound THEN NoOutput
               ELSE ErrorOutput("Error searching books",
                                IF bound THEN Transport ELSE "UnboundLocalError"),
               Render(r))
    /\ UNCHANGED <<store, now, guard_len>>

\* choice '5': update_book_stock(book_id, new_stock)
Choice5(s, b, new_stock, net) ==
    /\ pc[s] = "menu"
    /\ IF net
       THEN /\ stock' = IF b \in books THEN [stock EXCEPT ![b] = new_stock] ELSE stock
            /\ Step(s, "5", 0, b, Data(books \cap {b}), NoOutput, "menu")
       ELSE /\ UNCHANGED stock
            /\ Step(s, "5", 0, b, None, ErrorOutput("Error updating stock", Transport), "menu")
    /\ UNCHANGED <<members, books, records, nextMemberId, nextBookId, now, guard_len>>

\* choice '6': update_member_info(member_id, new_email, new_name); name and
\* email are not kept, so the tables are left as they are
Choice6(s, m, net) ==
    /\ pc[s] = "menu"
    /\ IF net
       THEN Step(s, "6", m, 0, Data(members \cap {m}), NoOutput, "menu")
       ELSE Step(s, "6", m, 0, None,
                 ErrorOutput("Error updating member info", Transport), "menu")
    /\ UNCHANGED <<store, now, guard_len>>

\* choice '7', first store call of delete_member: the guard query (lines 88-91)
Choice7(s, m, net) ==
    /\ pc[s] = "menu"
    /\ IF ~net
       THEN /\ Step(s, "7", m, 0, None,
                    ErrorOutput("Error deleting member", Transport), "menu")
            /\ UNCHANGED guard_len
       ELSE IF OpenLoansOfMember(m) # {}
       THEN /\ Step(s, "7", m, 0, None,
                    ErrorOutput("Cannot delete member: they have outstanding borrowed books.",
                                ""),
                    "menu")
            /\ UNCHANGED guard_len
       ELSE /\ Step(s, "7", m, 0, None, NoOutput, "delete_member_93")
            /\ guard_len' = [guard_len EXCEPT ![s] = Len(records)]
    /\ UNCHANGED <<store, now>>

\* second store call of delete_member: the delete (lines 93-94)
DeleteMember(s, net) ==
    /\ pc[s] = "delete_member_93"
    /\ IF net
       THEN /\ members' = members \ {member_id[s]}
            /\ Step(s, "7", member_id[s], 0, Data(members \cap {member_id[s]}),
                    NoOutput, "menu")
       ELSE /\ UNCHANGED members
            /\ Step(s, "7", member_id[s], 0, None,
                    ErrorOutput("Error deleting member", Transport), "menu")
    /\ guard_len' = [guard_len EXCEPT ![s] = 0]
    /\ UNCHANGED <<books, stock, records, nextMemberId, nextBookId, now>>

\* choice '8', first store call of delete_book: the guard query (lines 102-105)
Choice8(s, b, net) ==
    /\ pc[s] = "menu"
    /\ IF ~net
       THEN /\ Step(s, "8", 0, b, None,
                    ErrorOutput("Error deleting book", Transport), "menu")
            /\ UNCHANGED guard_len
       ELSE IF OpenLoansOfBook(b) # {}
       THEN /\ Step(s, "8", 0, b, None,
                    ErrorOutput("Cannot delete book: it is currently borrowed.", ""),
                    "menu")
            /\ UNCHANGED guard_len
       ELSE /\ Step(s, "8", 0, b, None, NoOutput, "delete_book_107")
            /\ guard_len' = [guard_len EXCEPT ![s] = Len(records)]
    /\ UNCHANGED <<store, now>>

\* second store call of delete_book: the delete (lines 107-108)
DeleteBook(s, net) ==
    /\ pc[s] = "delete_book_107"
    /\ IF net
       THEN /\ books' = books \ {book_id[s]}
            /\ stock' = [b \in books \ {book_id[s]} |-> stock[b]]
            /\ Step(s, "8", 0, book_id[s], Data(books \cap {book_id[s]}),
                    NoOutput, "menu")
       ELSE /\ UNCHANGED <<books, stock>>
            /\ Step(s, "8", 0, book_id[s], None,
                    ErrorOutput("Error deleting book", Transport), "menu")
    /\ guard_len' = [guard_len EXCEPT ![s] = 0]
    /\ UNCHANGED <<members, records, nextMemberId, nextBookId, now>>

\* choice '9': result = borrow_book(member_id, book_id); print(result)
Choice9(s, m, b, net) ==
    /\ pc[s] = "menu"
    /\ LET o == borrow_book(m, b, net)
       IN /\ Len(o.records) <= MaxRecords
          /\ records' = o.records
          /\ stock' = o.stock
          /\ Step(s, "9", m, b, o.ret, o.out, "menu")
    /\ UNCHANGED <<members, books, nextMemberId, nextBookId, now, guard_len>>

\* choice '10': result = return_book(member_id, book_id); print(result)
Choice10(s, m, b, net) ==
    /\ pc[s] = "menu"
    /\ LET o == return_book(m, b, net)
       IN /\ records' = o.records
          /\ stock' = o.stock
          /\ Step(s, "10", m, b, o.ret, o.out, "menu")
    /\ UNCHANGED <<members, books, nextMemberId, nextBookId, now, guard_len>>

\* choice '11': the three reports, each printed row by row before the next
\* one is asked for; net1..net3 say which of the three calls reach the store
Choice11(s, net1, net2, net3) ==
    /\ pc[s] = "menu"
    /\ IF ~net1
       THEN Step(s, "11", 0, 0, None,
                 ErrorOutput("Error getting top borrowed books", Transport), "crashed")
       ELSE IF ~net2
       THEN Step(s, "11", 0, 0, None,
                 ErrorOutput("Error getting overdue books", Transport), "crashed")
       ELSE IF ~net3
       THEN Step(s, "11", 0, 0, None,
                 ErrorOutput("Error getting borrow count", Transport), "crashed")
       ELSE Step(s, "11", 0, 0, Data(get_borrow_count_per_member), NoOutput, "menu")
    /\ UNCHANGED <<store, now, guard_len>>

\* choice '12': break
Choice12(s) ==
    /\ pc[s] = "menu"
    /\ Step(s, "12", 0, 0, None, NoOutput, "exited")
    /\ UNCHANGED <<store, now, guard_len>>

\* any other input: "Invalid choice", and the menu again
ChoiceInvalid(s) ==
    /\ pc[s] = "menu"
    /\ Step(s, "invalid", 0, 0, None, NoOutput, "menu")
    /\ UNCHANGED <<store, now, guard_len>>

\* time passes at the store
Tick(d) ==
    /\ now + d <= MaxDay
    /\ now' = now + d
    /\ UNCHANGED <<store, session>>

\* ---------------------------------------------------------- specifications
\* One operator at the menu: the program as it is run.  The clock stands
\* still: no choice keeps anything it read from a timestamp.
Next ==
    \/ \E net \in BOOLEAN : Choice1(Operator, net)
    \/ \E q \in StockInputs, net \in BOOLEAN : Choice2(Operator, q, net)
    \/ \E net \in BOOLEAN : Choice3(Operator, net)
    \/ \E f \in {"title", "author", "category", "other"}, found \in SUBSET books,
          net \in BOOLEAN : Choice4(Operator, f, found, net)
    \/ \E b \in BookIds, q \in StockInputs, net \in BOOLEAN : Choice5(Operator, b, q, net)
    \/ \E m \in MemberIds, net \in BOOLEAN : Choice6(Operator, m, net)
    \/ \E m \in MemberIds, net \in BOOLEAN : Choice7(Operator, m, net)
    \/ \E net \in BOOLEAN : DeleteMember(Operator, net)
    \/ \E b \in BookIds, net \in BOOLEAN : Choice8(Operator, b, net)
    \/ \E net \in BOOLEAN : DeleteBook(Operator, net)
    \/ \E m \in MemberIds, b \in BookIds, net \in BOOLEAN : Choice9(Operator, m, b, net)
    \/ \E m \in MemberIds, b \in BookIds, net \in BOOLEAN : Choice10(Operator, m, b, net)
    \/ \E n1, n2, n3 \in BOOLEAN : Choice11(Operator, n1, n2, n3)
    \/ Choice12(Operator)
    \/ ChoiceInvalid(Operator)

Spec == Init /\ [][Next]_vars

\* A store holding every member and every book with one copy each, as
\* register_member and add_book(.., 1) leave it.
InitStocked ==
    /\ members = MemberIds
    /\ books = BookIds
    /\ stock = [b \in BookIds |-> 1]
    /\ records = <<>>
    /\ nextMemberId = MaxMembers + 1
    /\ nextBookId = MaxBooks + 1
    /\ now = 0
    /\ pc = [s \in Sessions |-> "menu"]
    /\ choice = [s \in Sessions |-> ""]
    /\ member_id = [s \in Sessions |-> 0]
    /\ book_id = [s \in Sessions |-> 0]
    /\ ret = [s \in Sessions |-> None]
    /\ out = [s \in Sessions |-> NoOutput]
    /\ guard_len = [s \in Sessions |-> 0]

\* One operator lending and taking back while the days pass, and asking for
\* the reports.
NextClock ==
    \/ \E m \in MemberIds, b \in BookIds, net \in BOOLEAN : Choice9(Operator, m, b, net)
    \/ \E m \in MemberIds, b \in BookIds, net \in BOOLEAN : Choice10(Operator, m, b, net)
    \/ \E n1, n2, n3 \in BOOLEAN : Choice11(Operator, n1, n2, n3)
    \/ \E d \in TickDays : Tick(d)

SpecClock == InitStocked /\ [][NextClock]_vars

\* Two operators against one store, each making one choice among borrow,
\* return and the two deletes, interleaved at the store calls.
NextConc ==
    \E s \in Sessions :
        \/ /\ choice[s] = ""
           /\ \/ \E m \in MemberIds, net \in BOOLEAN : Choice7(s, m, net)
              \/ \E b \in BookIds, net \in BOOLEAN : Choice8(s, b, net)
              \/ \E m \in MemberIds, b \in BookIds, net \in BOOLEAN : Choice9(s, m, b, net)
              \/ \E m \in MemberIds, b \in BookIds, net \in BOOLEAN : Choice10(s, m, b, net)
        \/ \E net \in BOOLEAN : DeleteMember(s, net)
        \/ \E net \in BOOLEAN : DeleteBook(s, net)

SpecConc == InitStocked /\ [][NextConc]_vars


\* ------------------------------------------------------------- properties
\* the open records of the pair (m, b) in a borrow_records table recs
OpenIn(recs, m, b) ==
    {i \in DOMAIN recs : /\ recs[i].member_id = m
                         /\ recs[i].book_id = b
                         /\ recs[i].return_date = NULL}

\* the open records of a borrow_records table recs that reference member m
OpenOfMemberIn(recs, m) ==
    {i \in DOMAIN recs : recs[i].member_id = m /\ recs[i].return_date = NULL}

\* the open records of a borrow_records table recs that reference book b
OpenOfBookIn(recs, b) ==
    {i \in DOMAIN recs : recs[i].book_id = b /\ recs[i].return_date = NULL}

\* this step: the operator, at the menu, makes choice c with ids m and b
Called(c, m, b) ==
    /\ pc[Operator] = "menu"
    /\ choice'[Operator] = c
    /\ member_id'[Operator] = m
    /\ book_id'[Operator] = b

\* this step: the store answered (no store call raised a transport error)
Answered == out'[Operator].e # Transport

\* C1: whenever borrow_book(m, b) succeeds, the stock of b is the stock
\* before minus 1, exactly one open record exists for (m, b), and no other
\* book's stock, no other record and no row of members or books changes.
C1_BorrowEffect ==
    [][\A m \in MemberIds, b \in BookIds :
        (Called("9", m, b) /\ ~ret'[Operator].none) =>
            /\ b \in books
            /\ stock'[b] = stock[b] - 1
            /\ Cardinality(OpenIn(records', m, b)) = 1
            /\ \A b2 \in books \ {b} : stock'[b2] = stock[b2]
            /\ Len(records') = Len(records) + 1
            /\ SubSeq(records', 1, Len(records)) = records
            /\ members' = members /\ books' = books]_vars

\* C1 witness: a borrow has succeeded while another book is on the shelf
C1_Borrowed ==
    /\ choice[Operator] = "9"
    /\ ~ret[Operator].none
    /\ OpenIn(records, member_id[Operator], book_id[Operator]) # {}
    /\ books = BookIds

\* C2: whenever return_book(m, b) succeeds, the stock of b is the stock
\* before plus 1, the record that was open for (m, b) has a return timestamp,
\* and no open record for (m, b) remains.
C2_ReturnEffect ==
    [][\A m \in MemberIds, b \in BookIds :
        (Called("10", m, b) /\ ~ret'[Operator].none) =>
            /\ b \in books
            /\ stock'[b] = stock[b] + 1
            /\ OpenIn(records, m, b) # {}
            /\ \A i \in OpenIn(records, m, b) : records'[i].return_date # NULL
            /\ OpenIn(records', m, b) = {}
            /\ Len(records') = Len(records)]_vars

\* C2 witness: a return has succeeded and closed a record
C2_Returned ==
    /\ choice[Operator] = "10"
    /\ ~ret[Operator].none
    /\ \E i \in DOMAIN records :
        /\ records[i].member_id = member_id[Operator]
        /\ records[i].book_id = book_id[Operator]
        /\ records[i].return_date # NULL

\* at most one open record per (member, book) pair
AtMostOneOpen ==
    \A m \in MemberIds, b \in BookIds : Cardinality(OpenIn(records, m, b)) <= 1

\* C4: borrow_book(m, b) called when the stock of b is 0 or lower, or when an
\* open record exists for (m, b), returns no result and leaves every table
\* as it was; and in every reachable state a pair has at most one open record.
C4_BorrowRefused ==
    /\ []AtMostOneOpen
    /\ [][\A m \in MemberIds, b \in BookIds :
            (/\ Called("9", m, b)
             /\ \/ b \in books /\ stock[b] <= 0
                \/ OpenIn(records, m, b) # {})
            => (ret'[Operator].none /\ UNCHANGED store)]_vars

\* C4 witness: a borrow was refused by the procedure although a copy is on
\* the shelf: the member already holds the book
C4_RefusedSecondCopy ==
    /\ choice[Operator] = "9"
    /\ ret[Operator].none
    /\ out[Operator].e = Precondition
    /\ book_id[Operator] \in books
    /\ stock[book_id[Operator]] > 0
    /\ OpenIn(records, member_id[Operator], book_id[Operator]) # {}

\* C5: return_book(m, b) called when no open record exists for (m, b)
\* returns no result and leaves every table as it was.
C5_ReturnRefused ==
    [][\A m \in MemberIds, b \in BookIds :
        (Called("10", m, b) /\ OpenIn(records, m, b) = {})
        => (ret'[Operator].none /\ UNCHANGED store)]_vars

\* C5 witness: the second return of a loan was refused by the procedure
C5_RefusedSecondReturn ==
    /\ choice[Operator] = "10"
    /\ ret[Operator].none
    /\ out[Operator].e = Precondition
    /\ \E i \in DOMAIN records :
        /\ records[i].member_id = member_id[Operator]
        /\ records[i].book_id = book_id[Operator]
        /\ records[i].return_date # NULL

\* C6: with one operator (nothing interleaved) and the store answering,
\* delete_member(m) and delete_book(b) return no result, print the refusal
\* and change nothing when an open record references the target; otherwise
\* they go on to the delete, which removes the target's row and returns it,
\* leaving borrow_records as it was, closed records of the target included.
C6_GuardedDelete ==
    [][/\ \A m \in MemberIds :
            (Called("7", m, 0) /\ Answered) =>
                /\ UNCHANGED store
                /\ IF OpenOfMemberIn(records, m) # {}
                   THEN /\ ret'[Operator].none
                        /\ pc'[Operator] = "menu"
                        /\ out'[Operator].msg # ""
                   ELSE pc'[Operator] = "delete_member_93"
       /\ \A b \in BookIds :
            (Called("8", 0, b) /\ Answered) =>
                /\ UNCHANGED store
                /\ IF OpenOfBookIn(records, b) # {}
                   THEN /\ ret'[Operator].none
                        /\ pc'[Operator] = "menu"
                        /\ out'[Operator].msg # ""
                   ELSE pc'[Operator] = "delete_book_107"
       /\ (pc[Operator] = "delete_member_93" /\ Answered) =>
            /\ OpenOfMemberIn(records, member_id[Operator]) = {}
            /\ members' = members \ {member_id[Operator]}
            /\ ret'[Operator] = Data(members \cap {member_id[Operator]})
            /\ pc'[Operator] = "menu"
            /\ UNCHANGED <<books, stock, records>>
       /\ (pc[Operator] = "delete_book_107" /\ Answered) =>
            /\ OpenOfBookIn(records, book_id[Operator]) = {}
            /\ books' = books \ {book_id[Operator]}
            /\ ret'[Operator] = Data(books \cap {book_id[Operator]})
            /\ pc'[Operator] = "menu"
            /\ UNCHANGED <<members, records>>]_vars

\* C6 witness: a member whose only records are closed has been deleted
C6_DeletedWithClosedRecords ==
    /\ choice[Operator] = "7"
    /\ pc[Operator] = "menu"
    /\ ret[Operator] = Data({member_id[Operator]})
    /\ member_id[Operator] \notin members
    /\ \E i \in DOMAIN records :
        /\ records[i].member_id = member_id[Operator]
        /\ records[i].return_date # NULL

\* C7: at any value of the clock, get_overdue_books returns exactly the open
\* records whose borrow timestamp is more than 14 days before now.
C7_OverdueExact ==
    get_overdue_books =
        {i \in DOMAIN records :
            /\ records[i].return_date = NULL
            /\ records[i].borrow_date < now - OverdueDays}

\* C8: the stock count of every book is non-negative in every reachable state.
C8_StockNonNegative == \A b \in books : stock[b] >= 0

\* C9: the interaction loop never ends on an unhandled error: it ends only
\* through choice 12.
C9_LoopEndsOnlyByExit ==
    pc[Operator] \notin {"menu", "delete_member_93", "delete_book_107"} =>
        (pc[Operator] = "exited" /\ choice[Operator] = "12")


\* both operators made a borrow attempt on book b that reached the store
BothBorrowed(b) ==
    \A s \in Sessions :
        /\ choice[s] = "9"
        /\ book_id[s] = b
        /\ out[s].e # Transport

\* C3: two borrow attempts on the same book with one copy, served in either
\* order, by two members or by one: exactly one succeeds, the other is
\* refused by the procedure, the stock ends at 0 and one open record exists.
C3_OneBorrowWins ==
    \A b \in BookIds :
        BothBorrowed(b) =>
            /\ Cardinality({s \in Sessions : ~ret[s].none}) = 1
            /\ \A s \in Sessions : ret[s].none => out[s].e = Precondition
            /\ stock[b] = 0
            /\ Cardinality(OpenOfBookIn(records, b)) = 1
            /\ Len(records) = 1

\* C3 witness: two members tried the same book and the second operator's
\* call was served first
C3_SecondServedFirst ==
    \E b \in BookIds :
        /\ BothBorrowed(b)
        /\ member_id[1] # member_id[2]
        /\ ~ret[2].none
        /\ ret[1].none

\* members and books whose row has been deleted
DeletedMembers == (1..(nextMemberId - 1)) \ members
DeletedBooks == (1..(nextBookId - 1)) \ books

\* C10 as stated: in every reachable state, interleavings included, no open
\* record references a member or a book whose row has been deleted.
C10_NoOpenLoanOfDeletedRow ==
    \A i \in DOMAIN records :
        records[i].return_date = NULL =>
            /\ records[i].member_id \notin DeletedMembers
            /\ records[i].book_id \notin DeletedBooks

\* C10 amended: a row is removed only after a guard query that found no open
\* record for it: every open record that references the row when it is
\* removed was inserted after that guard query ran, by an interleaved borrow.
C10_DeletedAfterCleanGuard ==
    [][\A s \in Sessions :
        /\ (pc[s] = "delete_member_93" /\ members' # members) =>
                \A i \in OpenOfMemberIn(records, member_id[s]) : i > guard_len[s]
        /\ (pc[s] = "delete_book_107" /\ books' # books) =>
                \A i \in OpenOfBookIn(records, book_id[s]) : i > guard_len[s]]_vars

\* C10 witness: a member's row has been removed although a borrow, made
\* between the guard query and the delete, left an open record for the member
C10_DeletedUnderRace ==
    \E s \in Sessions :
        /\ choice[s] = "7"
        /\ pc[s] = "menu"
        /\ ret[s] = Data({member_id[s]})
        /\ OpenOfMemberIn(records, member_id[s]) # {}

====
